---- MODULE Spec2Model ----
(***************************************************************************)
(* hypermatcher: a pool of scan workers (PooledEngine / PoolWorker) and a  *)
(* single-scratch engine (Simple) in front of a compiled pattern database. *)
(* Every critical section of the engines holds no blocking operation, so   *)
(* each one is a single step; channel handoffs are joint steps of the      *)
(* sender and the receiver.                                                *)
(***************************************************************************)
EXTENDS Integers, Sequences, FiniteSets, TLC

\* ------------------------------------------------------------------ bounds
NumWorkers == 2      \* numWorkers handed to NewPooledEngine
MaxStarts == 2       \* successful Start calls (worker generations)
MaxUpdates == 2      \* databases built by Update calls
NumClients == 2      \* goroutines calling Update and Match
NumCPU == 2          \* runtime.NumCPU(): partitions of the parallel compilation
MaxAllocFails == 1   \* scratch allocations that fail
MaxMatched == 3      \* match events reported by one scan
MaxPats == 3         \* patterns handed to compilePatterns on its own
MaxSlices == 3       \* numSlices handed to subSlices on its own
MaxSliceLen == 5     \* length of the slice handed to subSlices on its own

\* ------------------------------------------------------------------ inputs
\* pattern strings handed to Update; "/p/z" carries the unknown flag z
PatternLists == { <<>>, <<"/p/z">>, <<"/p/", "/q/">>, <<"/q/">> }
\* vectored corpora handed to Match
Corpora == { <<"q">> }

Gens == 1..MaxStarts
Workers == Gens \X (1..NumWorkers)
Clients == 1..NumClients
NoDb == 0
DbIds == 1..MaxUpdates

\* ------------------------------------------------------------------ errors
ErrStarted == "workers already started"
ErrNotStarted == "workers not started"
ErrDBNotLoaded == "database not loaded"
ErrBusy == "workers busy"
ErrNoPatterns == "no patterns specified"
ErrWorkerUninitialized == "worker uninitialized"
ErrNotLoaded == "database not loaded"
\* errors of the hyperscan library
ErrFlag(f) == "invalid pattern, unknown flag " \o f
ErrParse == ErrFlag("z")
ErrBuild == "database build failed"
ErrScratch == "scratch allocation failed"
ErrScan == "scan error"
Nil == "nil"

\* fmt.Errorf("error parsing pattern %s: %s", pattern, compileErr.Error())
ParseErr(pattern, e) == "error parsing pattern " \o pattern \o ": " \o e
\* fmt.Errorf("error updating pattern database: %s", err.Error())
UpdErr(e) == "error updating pattern database: " \o e

VARIABLES
    engine,      \* which constructor built the engine: "pooled" or "simple"
    lim,         \* what the environment of this run does at most
    started,     \* pe.started
    loaded,      \* pe.loaded
    db,          \* pe.db (NoDb before the first Update)
    patterns,    \* pe.patterns
    stopClosed,  \* close(pe.stopChan) has run
    gen,         \* generation of the workers in pe.workers (0: none spawned)
    wpc,         \* position of each worker goroutine
    wdb,         \* pw.db
    wscratch,    \* pw.scratch: "nil", "ok", "freed", or "nil freed" (Free on nil)
    werr,        \* pw.err
    wreq,        \* the matcher whose request the worker holds (0: none)
    dbPats,      \* compiled pattern list of every database built so far
    released,    \* number of Close calls on every database
    scratch,     \* Simple.scratch: the database it was allocated for (NoDb: nil)
    sfreed,      \* number of Free calls on the scratch allocated for a database
    upd,         \* the clients inside Update
    mat,         \* the clients inside Match
    cls,         \* the clients inside Close
    last,        \* the last call that returned, and what it returned
    fault,       \* the panic that ended the program ("none" while it runs)
    hist,        \* history of the run that the properties refer to
    fn           \* a helper function called on its own: its arguments and result

vars == << engine, lim, fn, started, loaded, db, patterns, stopClosed, gen, wpc, wdb,
           wscratch, werr, wreq, dbPats, released, scratch, sfreed, upd, mat, cls,
           last, fault, hist >>

pevars == << started, loaded, db, patterns >>
wvars == << wpc, wdb, wscratch, werr, wreq >>
svars == << scratch, sfreed, cls >>

\* ------------------------------------------------------------------ pure parts
\* hyperscan.ParsePattern: the expression between the slashes, or an error
\* for an unknown flag
ParsePattern(s) ==
    CASE s = "/p/" -> [err |-> Nil, Expression |-> "p"]
      [] s = "/q/" -> [err |-> Nil, Expression |-> "q"]
      [] s = "/q/y" -> [err |-> ErrFlag("y"), Expression |-> ""]
      [] OTHER     -> [err |-> ErrParse, Expression |-> ""]

RECURSIVE compileFrom(_, _, _)
compileFrom(pats, idx, acc) ==
    IF idx > Len(pats) THEN [err |-> Nil, patterns |-> acc]
    ELSE LET p == ParsePattern(pats[idx]) IN
         IF p.err # Nil THEN [err |-> ParseErr(pats[idx], p.err), patterns |-> << >>]
         ELSE compileFrom(pats, idx + 1,
                          Append(acc, [Id |-> idx - 1, Expression |-> p.Expression]))

\* compilePatterns of the pooled engine: parse in input order, stop at the
\* first pattern that fails; ids are the input positions, counted from 0
compilePatterns(pats) == compileFrom(pats, 1, << >>)

RECURSIVE scanBlock(_, _, _)
scanBlock(cps, block, idx) ==
    IF idx > Len(cps) THEN << >>
    ELSE (IF cps[idx].Expression = block THEN << cps[idx].Id >> ELSE << >>)
         \o scanBlock(cps, block, idx + 1)

RECURSIVE Scan(_, _)
\* db.Scan with matchHandler: one id appended per match event, block by block
Scan(cps, corpus) ==
    IF corpus = << >> THEN << >>
    ELSE scanBlock(cps, Head(corpus), 1) \o Scan(cps, Tail(corpus))

SeqRange(s) == { s[k] : k \in DOMAIN s }

\* subSlices that leaves out the range of the remainder
subSlicesNoRemainder(n, numSlices) ==
    [i \in 1..numSlices |-> << (i - 1) * (n \div numSlices), i * (n \div numSlices) >>]

\* subSlices: numSlices ranges of len/numSlices indices, then the remainder
subSlices(n, numSlices) ==
    LET numPerSlice == n \div numSlices
        even == [i \in 1..numSlices |-> << (i - 1) * numPerSlice, i * numPerSlice >>]
    IN  IF numSlices * numPerSlice < n
        THEN Append(even, << numSlices * numPerSlice, n >>)
        ELSE even

\* a goroutine that numbers the patterns from 1
RECURSIVE compileRangeIdFromOne(_, _, _, _)
compileRangeIdFromOne(pats, idx, hi, done) ==
    IF idx >= hi THEN [compiled |-> done, failed |-> -1]
    ELSE IF ParsePattern(pats[idx + 1]).err = Nil
         THEN compileRangeIdFromOne(pats, idx + 1, hi,
                  done \cup { [slot |-> idx,
                               pattern |-> [Id |-> idx + 1,
                                   Expression |-> ParsePattern(pats[idx + 1]).Expression]] })
         ELSE [compiled |-> done, failed |-> idx]

\* the goroutine of one range: it parses from patternSet[0] on and breaks at
\* the first pattern that fails; the result is the slots of compiledPatterns
\* it wrote, each with the pattern and the id it gave it, and the index whose
\* error it recorded (-1: none), indices counted from 0
RECURSIVE compileRange(_, _, _, _)
compileRange(pats, idx, hi, done) ==
    IF idx >= hi THEN [compiled |-> done, failed |-> -1]
    ELSE IF ParsePattern(pats[idx + 1]).err = Nil
         THEN compileRange(pats, idx + 1, hi,
                  done \cup { [slot |-> idx,
                               pattern |-> [Id |-> idx,
                                   Expression |-> ParsePattern(pats[idx + 1]).Expression]] })
         ELSE [compiled |-> done, failed |-> idx]

\* compilePatterns that returns the last recorded error
compilePatternsParLast(pats, numSlices) ==
    LET ranges == subSlices(Len(pats), numSlices)
        runs == [r \in DOMAIN ranges |->
                   compileRange(pats, ranges[r][1], ranges[r][2], {})]
        compileErrors == { runs[r].failed : r \in DOMAIN ranges } \ {-1}
        writes == UNION { runs[r].compiled : r \in DOMAIN ranges }
        final == CHOOSE e \in compileErrors : \A f \in compileErrors : e >= f
    IN  IF compileErrors # {}
        THEN [err |-> ParsePattern(pats[final + 1]).err, patterns |-> << >>,
              errIdx |-> final]
        ELSE [err |-> Nil, errIdx |-> -1,
              patterns |-> [k \in 1..Len(pats) |->
                  (CHOOSE wr \in writes : wr.slot = k - 1).pattern]]

\* compilePatterns of the Simple engine: the ranges of subSlices are compiled
\* side by side, then the first recorded error in index order is returned
compilePatternsPar(pats, numSlices) ==
    LET ranges == subSlices(Len(pats), numSlices)
        runs == [r \in DOMAIN ranges |->
                   compileRange(pats, ranges[r][1], ranges[r][2], {})]
        compileErrors == { runs[r].failed : r \in DOMAIN ranges } \ {-1}
        writes == UNION { runs[r].compiled : r \in DOMAIN ranges }
        first == CHOOSE e \in compileErrors : \A f \in compileErrors : e <= f
    IN  IF compileErrors # {}
        THEN [err |-> ParsePattern(pats[first + 1]).err, patterns |-> << >>,
              errIdx |-> first]
        ELSE [err |-> Nil, errIdx |-> -1,
              \* a slot no goroutine wrote keeps the nil of make()
              patterns |-> [k \in 1..Len(pats) |->
                  IF \E wr \in writes : wr.slot = k - 1
                  THEN (CHOOSE wr \in writes : wr.slot = k - 1).pattern
                  ELSE [Id |-> -1, Expression |-> "nil"]]]

\* compilePatterns of hyperscanner.go as a whole: the patterns are parsed in
\* order, then the database is built; built tells whether
\* NewVectoredDatabase succeeded
compilePatternsDb(pats, built) ==
    LET c == compilePatterns(pats) IN
    IF c.err # Nil THEN c
    ELSE IF ~built THEN [err |-> UpdErr(ErrBuild), patterns |-> << >>]
    ELSE c

\* matchedIdxToPatterns: a result of len(matched) entries, written at the
\* matched ids; an id that is no index of the result or of the list panics
IdxInResult(matched, cps) ==
    \A id \in matched : id < Cardinality(matched) /\ id < Len(cps)

matchedIdxToPatterns(matched, cps) ==
    [k \in 1..Cardinality(matched) |->
        IF (k - 1) \in matched THEN cps[k].Expression ELSE ""]

\* the orders in which a Go map of the ids can be ranged over
Orders(S) ==
    { o \in [1..Cardinality(S) -> S] : \A a, b \in DOMAIN o : a # b => o[a] # o[b] }

\* patterns[patternsIdx] panics when the id is not an index of the list
IdxInRange(matched, cps) == \A id \in SeqRange(matched) : id < Len(cps)

\* matchedIdxToStrings without the sieve: one entry per reported id
matchedIdxToStringsNoSieve(matched, cps) ==
    { [k \in DOMAIN matched |-> cps[matched[k] + 1].Expression] }

\* matchedIdxToStrings: the results it can return, one per iteration order
matchedIdxToStrings(matched, cps) ==
    { [k \in DOMAIN o |-> cps[o[k] + 1].Expression] : o \in Orders(SeqRange(matched)) }

\* ------------------------------------------------------------------ initial state
IdleUpd == [pc |-> "idle", newdb |-> NoDb, prev |-> NoDb, i |-> 0, val |-> NoDb,
            tgt |-> << 0, 0 >>]
IdleMat == [pc |-> "idle", corpus |-> << >>, matched |-> << >>, since |-> NoDb,
            quiet |-> FALSE, scanned |-> NoDb]

\* what a call returned: the operation, its error and (for Match) its result;
\* empty tells that Update was handed an empty pattern list
RetOf(op, err, out, empty) == [op |-> op, err |-> err, out |-> out, empty |-> empty]
Ret(op, err, out) == RetOf(op, err, out, FALSE)

\* The runs explored: a pool that is restarted under one client, a pool
\* started once under concurrent clients, a pool whose scratch allocations
\* can fail, and a Simple engine under concurrent clients.
Scenarios ==
    { [engine |-> "pooled", starts |-> MaxStarts, clients |-> 1, allocFails |-> 0],
      [engine |-> "pooled", starts |-> 1, clients |-> NumClients, allocFails |-> 0],
      [engine |-> "pooled", starts |-> 1, clients |-> 1, allocFails |-> MaxAllocFails],
      [engine |-> "simple", starts |-> 0, clients |-> NumClients,
       allocFails |-> MaxAllocFails] }

\* no helper function is called on its own
NoFn == [op |-> "none", pc |-> "none", matched |-> << >>, cps |-> << >>, out |-> << >>]

Init ==
    /\ lim \in Scenarios
    /\ fn = NoFn
    /\ engine = lim.engine
    /\ started = FALSE
    /\ loaded = FALSE
    /\ db = NoDb
    /\ patterns = << >>
    /\ stopClosed = FALSE
    /\ gen = 0
    /\ wpc = [w \in Workers |-> "none"]
    /\ wdb = [w \in Workers |-> NoDb]
    /\ wscratch = [w \in Workers |-> "nil"]
    /\ werr = [w \in Workers |-> ErrWorkerUninitialized]
    /\ wreq = [w \in Workers |-> 0]
    /\ dbPats = [d \in DbIds |-> << >>]
    /\ released = [d \in DbIds |-> 0]
    /\ scratch = NoDb
    /\ sfreed = [d \in DbIds |-> 0]
    /\ cls = [c \in Clients |-> "idle"]
    /\ upd = [u \in Clients |-> IdleUpd]
    /\ mat = [m \in Clients |-> IdleMat]
    /\ last = Ret("none", Nil, << >>)
    /\ fault = "none"
    /\ hist = [nDb |-> 0, lastRet |-> NoDb, overlap |-> FALSE, allocFails |-> 0]

Running == fault = "none"
Pooled == engine = "pooled" /\ Running

\* ------------------------------------------------------------------ PooledEngine.Start
\* Start without its check of pe.started
StartUnchecked ==
    /\ Pooled
    /\ gen < lim.starts
    /\ gen' = gen + 1
    /\ wpc' = [w \in Workers |-> IF w[1] = gen + 1 THEN "select" ELSE wpc[w]]
    /\ started' = TRUE
    /\ last' = Ret("Start", Nil, << >>)
    /\ UNCHANGED << loaded, db, patterns, wdb, wscratch, werr, wreq >>
    /\ UNCHANGED << engine, lim, fn, svars, stopClosed, dbPats, released, upd, mat, fault, hist >>

Start ==
    /\ Pooled
    /\ IF started
       THEN /\ last' = Ret("Start", ErrStarted, << >>)
            /\ UNCHANGED << pevars, wvars, gen >>
       ELSE /\ gen < lim.starts
            /\ gen' = gen + 1
            \* newPoolWorker and go worker.start() for every slot of pe.workers
            /\ wpc' = [w \in Workers |-> IF w[1] = gen + 1 THEN "select" ELSE wpc[w]]
            /\ started' = TRUE
            /\ last' = Ret("Start", Nil, << >>)
            /\ UNCHANGED << loaded, db, patterns, wdb, wscratch, werr, wreq >>
    /\ UNCHANGED << engine, lim, fn, svars, stopClosed, dbPats, released, upd, mat, fault, hist >>

\* ------------------------------------------------------------------ PooledEngine.Stop
Stop ==
    /\ Pooled
    /\ IF ~started
       THEN /\ last' = Ret("Stop", ErrNotStarted, << >>)
            /\ UNCHANGED << pevars, wvars, stopClosed, released, fault >>
       ELSE IF stopClosed
       THEN \* close of a closed channel panics
            /\ fault' = "close of closed channel"
            /\ UNCHANGED << pevars, wvars, stopClosed, released, last >>
       ELSE /\ stopClosed' = TRUE
            \* every worker parked in its select is woken on the stop case
            /\ wpc' = [w \in Workers |-> IF wpc[w] = "parked" THEN "stop" ELSE wpc[w]]
            /\ IF loaded
               THEN /\ released' = [released EXCEPT ![db] = @ + 1]
                    /\ loaded' = FALSE
               ELSE UNCHANGED << released, loaded >>
            /\ started' = FALSE
            /\ last' = Ret("Stop", Nil, << >>)
            /\ UNCHANGED << db, patterns, wdb, wscratch, werr, wreq, fault >>
    /\ UNCHANGED << engine, lim, fn, svars, gen, dbPats, upd, mat, hist >>

\* ------------------------------------------------------------------ PoolWorker
\* The select of PoolWorker.Start finds no case ready and the goroutine parks
\* on its channels. Match never waits on requestChan, so a request is never
\* ready when the select is entered; a closed stopChan is always ready.
WorkerPark(w) ==
    /\ Pooled
    /\ wpc[w] = "select"
    /\ ~stopClosed
    /\ wpc' = [wpc EXCEPT ![w] = "parked"]
    /\ UNCHANGED << engine, lim, fn, svars, pevars, stopClosed, gen, wdb, wscratch, werr, wreq,
                    dbPats, released, upd, mat, last, fault, hist >>

\* pw.onStop: pw.scratch.Free(), whatever pw.scratch holds
onStop(w) ==
    wscratch' = [wscratch EXCEPT ![w] = IF @ = "ok" THEN "freed"
                                        ELSE IF @ = "nil" THEN "nil freed" ELSE @]

\* case <-pw.stopChan: onStop and return
WorkerStop(w) ==
    /\ Pooled
    /\ \/ wpc[w] = "stop"
       \/ wpc[w] = "select" /\ stopClosed
    /\ onStop(w)
    /\ wpc' = [wpc EXCEPT ![w] = "exited"]
    \* the fields of a worker that has returned are read by nobody
    /\ wdb' = [wdb EXCEPT ![w] = NoDb]
    /\ werr' = [werr EXCEPT ![w] = Nil]
    /\ UNCHANGED << engine, lim, fn, svars, pevars, stopClosed, gen, wreq,
                    dbPats, released, upd, mat, last, fault, hist >>

\* onUpdateDB whose Realloc leaves an error behind even when it succeeds
onUpdateDBReallocFails(w, newDB, allocated) ==
    /\ wdb' = [wdb EXCEPT ![w] = newDB]
    /\ IF wscratch[w] = "nil"
       THEN /\ wscratch' = [wscratch EXCEPT ![w] = IF allocated THEN "ok" ELSE "nil"]
            /\ werr' = [werr EXCEPT ![w] = IF allocated THEN Nil ELSE ErrScratch]
       ELSE /\ wscratch' = wscratch
            /\ werr' = [werr EXCEPT ![w] = ErrScratch]

\* onUpdateDB that keeps the database the worker already holds
onUpdateDBNoRebind(w, newDB, allocated) ==
    /\ wdb' = [wdb EXCEPT ![w] = IF @ = NoDb THEN newDB ELSE @]
    /\ wscratch' = [wscratch EXCEPT ![w] = IF @ = "nil" /\ ~allocated THEN "nil" ELSE "ok"]
    /\ werr' = [werr EXCEPT ![w] = IF allocated THEN Nil ELSE ErrScratch]

\* pw.onUpdateDB(newDB); allocated tells whether NewScratch/Realloc succeeded
onUpdateDB(w, newDB, allocated) ==
    /\ wdb' = [wdb EXCEPT ![w] = newDB]
    /\ IF wscratch[w] = "nil"
       THEN /\ wscratch' = [wscratch EXCEPT ![w] = IF allocated THEN "ok" ELSE "nil"]
            /\ werr' = [werr EXCEPT ![w] = IF allocated THEN Nil ELSE ErrScratch]
       ELSE /\ wscratch' = wscratch
            /\ werr' = [werr EXCEPT ![w] = IF allocated THEN Nil ELSE ErrScratch]

\* ------------------------------------------------------------------ PooledEngine.Update
UpdateBusy == { u \in Clients : upd[u].pc # "idle" }

\* Update returns err at once, nothing but the result is changed
UpdateReturn(err, empty) ==
    /\ last' = RetOf("Update", err, << >>, empty)
    /\ UNCHANGED << dbPats, hist, mat, upd >>

\* compilePatterns gave the database and its compiled pattern list cps
UpdateCompiled(u, cps) ==
    /\ hist.nDb < MaxUpdates
    /\ dbPats' = [dbPats EXCEPT ![hist.nDb + 1] = cps]
    /\ upd' = [upd EXCEPT ![u] = [IdleUpd EXCEPT !.pc = "install",
                                                 !.newdb = hist.nDb + 1]]
    /\ hist' = [hist EXCEPT !.nDb = @ + 1, !.overlap = @ \/ UpdateBusy # {}]
    /\ mat' = [m \in Clients |-> [mat[m] EXCEPT !.quiet = FALSE]]
    /\ UNCHANGED last

\* Update that releases the database in place before it compiles
UpdateFrameReleasing(u) ==
    /\ Pooled
    /\ u <= lim.clients
    /\ upd[u].pc = "idle" /\ mat[u].pc = "idle"
    /\ released' = IF loaded THEN [released EXCEPT ![db] = 1] ELSE released
    /\ UNCHANGED << engine, lim, fn, svars, pevars, stopClosed, gen, wvars, fault >>

\* client u is free to call Update; the call touches none of these
UpdateFrame(u) ==
    /\ Pooled
    /\ u <= lim.clients
    /\ upd[u].pc = "idle" /\ mat[u].pc = "idle"
    /\ UNCHANGED << engine, lim, fn, svars, pevars, stopClosed, gen, wvars, released, fault >>

\* Update with the check of pe.started ahead of the length check
UpdateCallStartedFirst(u, pats, built) ==
    /\ UpdateFrame(u)
    /\ LET c == compilePatterns(pats) IN
       IF ~started THEN UpdateReturn(ErrNotStarted, Len(pats) = 0)
       ELSE IF Len(pats) = 0 THEN UpdateReturn(ErrNoPatterns, TRUE)
       ELSE IF c.err # Nil THEN UpdateReturn(UpdErr(c.err), FALSE)
       ELSE IF ~built THEN UpdateReturn(UpdErr(UpdErr(ErrBuild)), FALSE)
       ELSE UpdateCompiled(u, c.patterns)

\* Update without its check of pe.started
UpdateCallNoStartedCheck(u, pats, built) ==
    /\ UpdateFrame(u)
    /\ LET c == compilePatterns(pats) IN
       IF Len(pats) = 0 THEN UpdateReturn(ErrNoPatterns, TRUE)
       ELSE IF c.err # Nil THEN UpdateReturn(UpdErr(c.err), FALSE)
       ELSE IF ~built THEN UpdateReturn(UpdErr(UpdErr(ErrBuild)), FALSE)
       ELSE UpdateCompiled(u, c.patterns)

\* Update up to the end of compilePatterns: the length check, the read of
\* pe.started under the read lock, and the compilation (which touches no
\* shared state). built tells whether the database build succeeded.
UpdateCall(u, pats, built) ==
    /\ UpdateFrame(u)
    /\ LET c == compilePatterns(pats) IN
       IF Len(pats) = 0 THEN UpdateReturn(ErrNoPatterns, TRUE)
       ELSE IF ~started THEN UpdateReturn(ErrNotStarted, FALSE)
       ELSE IF c.err # Nil THEN UpdateReturn(UpdErr(c.err), FALSE)
       ELSE IF ~built THEN UpdateReturn(UpdErr(UpdErr(ErrBuild)), FALSE)
       ELSE UpdateCompiled(u, c.patterns)

\* the section of Update under pe.mu.Lock()
UpdateInstall(u) ==
    /\ Pooled
    /\ upd[u].pc = "install"
    /\ released' = IF loaded THEN [released EXCEPT ![db] = @ + 1] ELSE released
    /\ db' = upd[u].newdb
    /\ patterns' = dbPats[upd[u].newdb]
    /\ loaded' = TRUE
    /\ upd' = [upd EXCEPT ![u].pc = "eval", ![u].i = 1,
                          ![u].prev = IF loaded THEN db ELSE NoDb]
    /\ UNCHANGED << engine, lim, fn, svars, started, stopClosed, gen, wvars, dbPats, mat, last,
                    fault, hist >>

\* the operands of worker.refreshChan <- pe.db are read, without the lock
UpdateEval(u) ==
    /\ Pooled
    /\ upd[u].pc = "eval"
    /\ upd' = [upd EXCEPT ![u].pc = "send", ![u].val = db,
                          ![u].tgt = << gen, upd[u].i >>]
    /\ UNCHANGED << engine, lim, fn, svars, pevars, stopClosed, gen, wvars, dbPats, released, mat,
                    last, fault, hist >>

\* a refresh that is delivered to a worker whatever the worker is doing
UpdateSendAnytime(u, allocated) ==
    /\ Pooled
    /\ upd[u].pc = "send"
    /\ allocated
    /\ wpc[upd[u].tgt] \in {"select", "parked", "scan"}
    /\ onUpdateDB(upd[u].tgt, upd[u].val, allocated)
    /\ upd' = [upd EXCEPT ![u].pc = "eval", ![u].i = 1]
    /\ UNCHANGED << engine, lim, fn, svars, pevars, stopClosed, gen, wpc, wreq, dbPats,
                    released, mat, fault, hist, last >>

\* the send on the refresh channel meets the worker's select, the worker runs
\* onUpdateDB; after the last worker Update returns nil
UpdateSend(u, allocated) ==
    /\ Pooled
    /\ upd[u].pc = "send"
    /\ allocated \/ hist.allocFails < lim.allocFails
    /\ LET w == upd[u].tgt IN
       /\ wpc[w] \in {"select", "parked"}
       /\ onUpdateDB(w, upd[u].val, allocated)
       /\ wpc' = [wpc EXCEPT ![w] = "select"]
    /\ IF upd[u].i < NumWorkers
       THEN /\ upd' = [upd EXCEPT ![u].pc = "eval", ![u].i = @ + 1]
            /\ hist' = [hist EXCEPT !.allocFails = IF allocated THEN @ ELSE @ + 1]
            /\ UNCHANGED last
       ELSE /\ upd' = [upd EXCEPT ![u] = IdleUpd]
            /\ hist' = [hist EXCEPT !.lastRet = upd[u].newdb,
                                    !.allocFails = IF allocated THEN @ ELSE @ + 1]
            /\ last' = Ret("Update", Nil, << >>)
    /\ UNCHANGED << engine, lim, fn, svars, pevars, stopClosed, gen, wreq, dbPats, released, mat,
                    fault >>

\* ------------------------------------------------------------------ PooledEngine.Match
\* Match with the case of pe.started ahead of the case of pe.loaded
MatchCallStartedFirst(m, corpus) ==
    /\ Pooled
    /\ m <= lim.clients
    /\ mat[m].pc = "idle" /\ upd[m].pc = "idle"
    /\ IF ~started
       THEN /\ last' = Ret("Match", ErrNotStarted, << >>)
            /\ UNCHANGED mat
       ELSE IF ~loaded
       THEN /\ last' = Ret("Match", ErrDBNotLoaded, << >>)
            /\ UNCHANGED mat
       ELSE /\ mat' = [mat EXCEPT ![m] = [IdleMat EXCEPT !.pc = "dispatch",
                                                         !.corpus = corpus,
                                                         !.since = hist.lastRet,
                                                         !.quiet = UpdateBusy = {}]]
            /\ UNCHANGED last
    /\ UNCHANGED << engine, lim, fn, svars, pevars, stopClosed, gen, wvars, dbPats, released, upd,
                    fault, hist >>

\* Match that goes on to the workers whether a database is loaded or not
MatchCallNoLoadedCheck(m, corpus) ==
    /\ Pooled
    /\ m <= lim.clients
    /\ mat[m].pc = "idle" /\ upd[m].pc = "idle"
    /\ IF ~started
       THEN /\ last' = Ret("Match", ErrNotStarted, << >>)
            /\ UNCHANGED mat
       ELSE /\ mat' = [mat EXCEPT ![m] = [IdleMat EXCEPT !.pc = "dispatch",
                                                         !.corpus = corpus,
                                                         !.since = hist.lastRet,
                                                         !.quiet = UpdateBusy = {}]]
            /\ UNCHANGED last
    /\ UNCHANGED << engine, lim, fn, svars, pevars, stopClosed, gen, wvars, dbPats, released, upd,
                    fault, hist >>

\* the read of pe.loaded and pe.started under the read lock
MatchCall(m, corpus) ==
    /\ Pooled
    /\ m <= lim.clients
    /\ mat[m].pc = "idle" /\ upd[m].pc = "idle"
    /\ IF ~loaded
       THEN /\ last' = Ret("Match", ErrDBNotLoaded, << >>)
            /\ UNCHANGED mat
       ELSE IF ~started
       THEN /\ last' = Ret("Match", ErrNotStarted, << >>)
            /\ UNCHANGED mat
       ELSE /\ mat' = [mat EXCEPT ![m] = [IdleMat EXCEPT !.pc = "dispatch",
                                                         !.corpus = corpus,
                                                         !.since = hist.lastRet,
                                                         !.quiet = UpdateBusy = {}]]
            /\ UNCHANGED last
    /\ UNCHANGED << engine, lim, fn, svars, pevars, stopClosed, gen, wvars, dbPats, released, upd,
                    fault, hist >>

\* a send that would also reach a worker that is not parked yet
WaitingOrBusy(w) == wpc[w] \in {"parked", "select"}

\* a worker is waiting in its select: a receiver is parked on requestChan
Waiting(w) == wpc[w] = "parked"

\* select { case pe.requestChan <- request: a parked worker takes the request
MatchDispatch(m, w) ==
    /\ Pooled
    /\ mat[m].pc = "dispatch"
    /\ Waiting(w)
    /\ wpc' = [wpc EXCEPT ![w] = "scan"]
    /\ wreq' = [wreq EXCEPT ![w] = m]
    /\ mat' = [mat EXCEPT ![m].pc = "wait"]
    /\ UNCHANGED << engine, lim, fn, svars, pevars, stopClosed, gen, wdb, wscratch, werr, dbPats,
                    released, upd, last, fault, hist >>

\* default: return nil, ErrBusy }
MatchBusy(m) ==
    /\ Pooled
    /\ mat[m].pc = "dispatch"
    /\ ~ \E w \in Workers : Waiting(w)
    /\ mat' = [mat EXCEPT ![m] = IdleMat]
    /\ last' = Ret("Match", ErrBusy, << >>)
    /\ UNCHANGED << engine, lim, fn, svars, pevars, stopClosed, gen, wvars, dbPats, released, upd,
                    fault, hist >>

\* what pw.db.Scan can give: on a live database the ids of the matches; a
\* released database is freed memory, the call may also fail or crash
ScanOutcomes(w, corpus) ==
    { [err |-> Nil, matched |-> Scan(dbPats[wdb[w]], corpus)] }
    \cup (IF released[wdb[w]] > 0
          THEN { [err |-> ErrScan, matched |-> << >>],
                 [err |-> "crash", matched |-> << >>] }
          ELSE { })

\* a worker that forgets its error once it has answered a scan with it
WorkerScanForgetting(w) ==
    /\ Pooled
    /\ wpc[w] = "scan"
    /\ LET m == wreq[w] IN
       IF werr[w] # Nil
       THEN /\ mat' = [mat EXCEPT ![m] = IdleMat]
            /\ last' = Ret("Match", werr[w], << >>)
            /\ werr' = [werr EXCEPT ![w] = Nil]
            /\ UNCHANGED fault
       ELSE /\ mat' = [mat EXCEPT ![m].pc = "map",
                                  ![m].matched = Scan(dbPats[wdb[w]], mat[m].corpus),
                                  ![m].scanned = wdb[w]]
            /\ UNCHANGED << fault, last, werr >>
    /\ wpc' = [wpc EXCEPT ![w] = "select"]
    /\ wreq' = [wreq EXCEPT ![w] = 0]
    /\ UNCHANGED << engine, lim, fn, svars, pevars, stopClosed, gen, wdb, wscratch, dbPats,
                    released, upd, hist >>

\* pw.onScan(request) and the reply on request.responseChan, on which the
\* caller of Match is waiting
WorkerScan(w) ==
    /\ Pooled
    /\ wpc[w] = "scan"
    /\ LET m == wreq[w] IN
       IF werr[w] # Nil
       THEN /\ mat' = [mat EXCEPT ![m] = IdleMat]
            /\ last' = Ret("Match", werr[w], << >>)
            /\ wpc' = [wpc EXCEPT ![w] = "select"]
            /\ wreq' = [wreq EXCEPT ![w] = 0]
            /\ UNCHANGED fault
       ELSE \E r \in ScanOutcomes(w, mat[m].corpus) :
            IF r.err = "crash"
            THEN /\ fault' = "scan of a released database"
                 /\ UNCHANGED << mat, wpc, wreq, last >>
            ELSE IF r.err # Nil
            THEN /\ mat' = [mat EXCEPT ![m] = IdleMat]
                 /\ last' = Ret("Match", r.err, << >>)
                 /\ wpc' = [wpc EXCEPT ![w] = "select"]
                 /\ wreq' = [wreq EXCEPT ![w] = 0]
                 /\ UNCHANGED fault
            ELSE /\ mat' = [mat EXCEPT ![m].pc = "map", ![m].matched = r.matched,
                                       ![m].scanned = wdb[w]]
                 /\ wpc' = [wpc EXCEPT ![w] = "select"]
                 /\ wreq' = [wreq EXCEPT ![w] = 0]
                 /\ UNCHANGED << fault, last >>
    /\ UNCHANGED << engine, lim, fn, svars, pevars, stopClosed, gen, wdb, wscratch, werr, dbPats,
                    released, upd, hist >>

\* return matchedIdxToStrings(response.matched, pe.patterns, &pe.mu), nil
MatchMap(m) ==
    /\ Pooled
    /\ mat[m].pc = "map"
    /\ IF ~IdxInRange(mat[m].matched, patterns)
       THEN /\ fault' = "index out of range"
            /\ UNCHANGED << mat, last >>
       ELSE /\ \E out \in matchedIdxToStrings(mat[m].matched, patterns) :
                 last' = Ret("Match", Nil, out)
            /\ mat' = [mat EXCEPT ![m] = IdleMat]
            /\ UNCHANGED fault
    /\ UNCHANGED << engine, lim, fn, svars, pevars, stopClosed, gen, wvars, dbPats, released, upd,
                    hist >>


\* ------------------------------------------------------------------ Simple
SimpleEng == engine = "simple" /\ Running
ClientIdle(c) == upd[c].pc = "idle" /\ mat[c].pc = "idle" /\ cls[c] = "idle"

\* Simple.Update up to s.mu.Lock(): the length check, compilePatterns,
\* buildDatabase and NewScratch, none of which touches the engine
SimpleUpdateCall(c, pats, built, allocated) ==
    /\ SimpleEng
    /\ c <= lim.clients
    /\ ClientIdle(c)
    /\ LET r == compilePatternsPar(pats, NumCPU) IN
       IF Len(pats) = 0
       THEN /\ last' = RetOf("Update", ErrNoPatterns, << >>, TRUE)
            /\ UNCHANGED << dbPats, hist, upd >>
       ELSE IF r.err # Nil
       THEN /\ last' = Ret("Update", UpdErr(r.err), << >>)
            /\ UNCHANGED << dbPats, hist, upd >>
       ELSE IF ~built
       THEN /\ last' = Ret("Update", UpdErr(UpdErr(ErrBuild)), << >>)
            /\ UNCHANGED << dbPats, hist, upd >>
       ELSE /\ hist.nDb < MaxUpdates
            /\ allocated \/ hist.allocFails < lim.allocFails
            /\ dbPats' = [dbPats EXCEPT ![hist.nDb + 1] = r.patterns]
            /\ IF allocated
               THEN /\ upd' = [upd EXCEPT ![c] = [IdleUpd EXCEPT !.pc = "install",
                                                            !.newdb = hist.nDb + 1]]
                    /\ hist' = [hist EXCEPT !.nDb = @ + 1]
                    /\ UNCHANGED last
               ELSE /\ last' = Ret("Update", UpdErr(ErrScratch), << >>)
                    /\ hist' = [hist EXCEPT !.nDb = @ + 1, !.allocFails = @ + 1]
                    /\ UNCHANGED upd
    /\ UNCHANGED << engine, lim, fn, pevars, stopClosed, gen, wvars, released, svars,
                    mat, fault >>

\* Update that installs the database and the scratch and leaves s.patterns to
\* a later critical section
SimpleUpdateInstallKeepsPatterns(c) ==
    /\ SimpleEng
    /\ upd[c].pc = "install"
    /\ released' = IF loaded THEN [released EXCEPT ![db] = @ + 1] ELSE released
    /\ db' = upd[c].newdb
    /\ sfreed' = IF scratch # NoDb THEN [sfreed EXCEPT ![scratch] = @ + 1] ELSE sfreed
    /\ scratch' = upd[c].newdb
    /\ loaded' = TRUE
    /\ upd' = [upd EXCEPT ![c] = IdleUpd]
    /\ last' = Ret("Update", Nil, << >>)
    /\ UNCHANGED << engine, lim, fn, started, patterns, stopClosed, gen, wvars, dbPats,
                    cls, mat, fault, hist >>

\* the section of Simple.Update under s.mu.Lock()
SimpleUpdateInstall(c) ==
    /\ SimpleEng
    /\ upd[c].pc = "install"
    /\ released' = IF loaded THEN [released EXCEPT ![db] = @ + 1] ELSE released
    /\ db' = upd[c].newdb
    /\ patterns' = dbPats[upd[c].newdb]
    /\ sfreed' = IF scratch # NoDb THEN [sfreed EXCEPT ![scratch] = @ + 1] ELSE sfreed
    /\ scratch' = upd[c].newdb
    /\ loaded' = TRUE
    /\ upd' = [upd EXCEPT ![c] = IdleUpd]
    /\ last' = Ret("Update", Nil, << >>)
    /\ UNCHANGED << engine, lim, fn, started, stopClosed, gen, wvars, dbPats, cls, mat,
                    fault, hist >>

\* Simple.Close before s.mu.Lock(): the isLoaded check
SimpleCloseCall(c) ==
    /\ SimpleEng
    /\ c <= lim.clients
    /\ ClientIdle(c)
    /\ IF ~loaded
       THEN /\ last' = Ret("Close", ErrNotLoaded, << >>)
            /\ UNCHANGED cls
       ELSE /\ cls' = [cls EXCEPT ![c] = "locked"]
            /\ UNCHANGED last
    /\ UNCHANGED << engine, lim, fn, pevars, stopClosed, gen, wvars, dbPats, released,
                    scratch, sfreed, upd, mat, fault, hist >>

\* Close that releases the database and the scratch but leaves the engine loaded
SimpleCloseStaysLoaded(c, closed) ==
    /\ SimpleEng
    /\ cls[c] = "locked"
    /\ closed
    /\ released' = [released EXCEPT ![db] = @ + 1]
    /\ sfreed' = IF scratch # NoDb THEN [sfreed EXCEPT ![scratch] = @ + 1] ELSE sfreed
    /\ scratch' = NoDb
    /\ last' = Ret("Close", Nil, << >>)
    /\ cls' = [cls EXCEPT ![c] = "idle"]
    /\ UNCHANGED << engine, lim, fn, pevars, stopClosed, gen, wvars,
                    dbPats, upd, mat, fault, hist >>

\* the section of Simple.Close under s.mu.Lock(); closed tells whether
\* s.db.Close() returned nil, which a database that was closed already need not
SimpleClose(c, closed) ==
    /\ SimpleEng
    /\ cls[c] = "locked"
    /\ closed \/ released[db] > 0
    /\ released' = [released EXCEPT ![db] = @ + 1]
    /\ IF closed
       THEN /\ sfreed' = IF scratch # NoDb THEN [sfreed EXCEPT ![scratch] = @ + 1]
                         ELSE sfreed
            /\ scratch' = NoDb
            /\ loaded' = FALSE
            /\ last' = Ret("Close", Nil, << >>)
       ELSE /\ last' = Ret("Close", "close error", << >>)
            /\ UNCHANGED << sfreed, scratch, loaded >>
    /\ cls' = [cls EXCEPT ![c] = "idle"]
    /\ UNCHANGED << engine, lim, fn, started, db, patterns, stopClosed, gen, wvars,
                    dbPats, upd, mat, fault, hist >>

\* Simple.Match before s.mu.Lock(): the isLoaded check
SimpleMatchCall(c, corpus) ==
    /\ SimpleEng
    /\ c <= lim.clients
    /\ ClientIdle(c)
    /\ IF ~loaded
       THEN /\ last' = Ret("Match", ErrNotLoaded, << >>)
            /\ UNCHANGED mat
       ELSE /\ mat' = [mat EXCEPT ![c] = [IdleMat EXCEPT !.pc = "scan",
                                                         !.corpus = corpus]]
            /\ UNCHANGED last
    /\ UNCHANGED << engine, lim, fn, pevars, stopClosed, gen, wvars, dbPats, released,
                    svars, upd, fault, hist >>

\* what s.db.Scan can give with the scratch of the engine
SimpleScanOutcomes(corpus) ==
    { [err |-> Nil, matched |-> SeqRange(Scan(dbPats[db], corpus))] }
    \cup (IF released[db] > 0 \/ scratch = NoDb
          THEN { [err |-> ErrScan, matched |-> {}], [err |-> "crash", matched |-> {}] }
          ELSE { })

\* the section of Simple.Match under s.mu.Lock(): the scan and
\* matchedIdxToPatterns
SimpleMatch(c) ==
    /\ SimpleEng
    /\ mat[c].pc = "scan"
    /\ \E r \in SimpleScanOutcomes(mat[c].corpus) :
         IF r.err = "crash"
         THEN /\ fault' = "scan of a released database"
              /\ UNCHANGED << mat, last >>
         ELSE IF r.err # Nil
         THEN /\ last' = Ret("Match", r.err, << >>)
              /\ mat' = [mat EXCEPT ![c] = IdleMat]
              /\ UNCHANGED fault
         ELSE IF ~IdxInResult(r.matched, patterns)
         THEN /\ fault' = "index out of range"
              /\ UNCHANGED << mat, last >>
         ELSE /\ last' = Ret("Match", Nil, matchedIdxToPatterns(r.matched, patterns))
              /\ mat' = [mat EXCEPT ![c] = IdleMat]
              /\ UNCHANGED fault
    /\ UNCHANGED << engine, lim, fn, pevars, stopClosed, gen, wvars, dbPats, released,
                    svars, upd, hist >>

\* ------------------------------------------------------------------ helper functions on their own
\* the pattern lists the helpers are handed, as compilePatterns leaves them
FnPatternLists == { << "/p/" >>, << "/p/", "/q/" >>, << "/q/", "/p/", "/q/" >> }
FnCompiled == { compilePatterns(pats).patterns : pats \in FnPatternLists }

\* the id lists a scan can report: up to MaxMatched match events
FnMatched == UNION { [1..n -> 0..2] : n \in 0..MaxMatched }

\* the pattern strings compilePatterns is handed on its own: two that parse
\* and two with an unknown flag, in lists of 1 to MaxPats
FnRawPatterns == { "/p/", "/q/", "/p/z", "/q/y" }
FnRawLists == UNION { [1..n -> FnRawPatterns] : n \in 1..MaxPats }

\* the calls of the helper functions: matchedIdxToStrings on a list of ids and
\* a pattern list, subSlices on a length and a number of slices, the parallel
\* compilePatterns on a list and a number of partitions, the sequential
\* compilePatterns on a list and the outcome of the database build
FnCalls ==
    { [op |-> "matchedIdxToStrings", pc |-> "call", matched |-> ids,
       cps |-> cps, out |-> << >>] : ids \in FnMatched, cps \in FnCompiled }
    \cup { [op |-> "subSlices", pc |-> "call", n |-> n, numSlices |-> k, out |-> << >>] :
             n \in 0..MaxSliceLen, k \in 1..MaxSlices }
    \cup { [op |-> "compilePatternsPar", pc |-> "call", pats |-> pats, numSlices |-> k,
            out |-> << >>] : pats \in FnRawLists, k \in 1..MaxSlices }
    \cup { [op |-> "compilePatterns", pc |-> "call", pats |-> pats, built |-> b,
            out |-> << >>] : pats \in FnRawLists, b \in BOOLEAN }
    \cup { [op |-> "matchedIdxToPatterns", pc |-> "call", matchedSet |-> M, cps |-> cps,
            out |-> << >>] : M \in SUBSET (0..(MaxPats - 1)), cps \in FnCompiled }

\* one of the helper functions is about to be called
FnInit ==
    /\ fn \in FnCalls
    /\ lim = [engine |-> "pooled", starts |-> 0, clients |-> 0, allocFails |-> 0]
    /\ engine = lim.engine
    /\ started = FALSE
    /\ loaded = FALSE
    /\ db = NoDb
    /\ patterns = << >>
    /\ stopClosed = FALSE
    /\ gen = 0
    /\ wpc = [w \in Workers |-> "none"]
    /\ wdb = [w \in Workers |-> NoDb]
    /\ wscratch = [w \in Workers |-> "nil"]
    /\ werr = [w \in Workers |-> ErrWorkerUninitialized]
    /\ wreq = [w \in Workers |-> 0]
    /\ dbPats = [d \in DbIds |-> << >>]
    /\ released = [d \in DbIds |-> 0]
    /\ scratch = NoDb
    /\ sfreed = [d \in DbIds |-> 0]
    /\ cls = [c \in Clients |-> "idle"]
    /\ upd = [u \in Clients |-> IdleUpd]
    /\ mat = [m \in Clients |-> IdleMat]
    /\ last = Ret("none", Nil, << >>)
    /\ fault = "none"
    /\ hist = [nDb |-> 0, lastRet |-> NoDb, overlap |-> FALSE, allocFails |-> 0]

\* the frame of a helper call: the engine is not touched
FnFrame ==
    UNCHANGED << engine, lim, pevars, wvars, svars, stopClosed, gen, dbPats, released,
                 upd, mat, last, fault, hist >>

\* matchedIdxToStrings(matched, patterns) runs: it returns one of its results,
\* or panics on an id that is no index of the pattern list
FnMatchedIdxToStrings ==
    /\ fn.op = "matchedIdxToStrings" /\ fn.pc = "call"
    /\ IF ~IdxInRange(fn.matched, fn.cps)
       THEN fn' = [fn EXCEPT !.pc = "panic"]
       ELSE \E out \in matchedIdxToStrings(fn.matched, fn.cps) :
                fn' = [fn EXCEPT !.pc = "done", !.out = out]
    /\ FnFrame

\* subSlices(slice, numSlices) runs on a slice of fn.n entries
FnSubSlices ==
    /\ fn.op = "subSlices" /\ fn.pc = "call"
    /\ fn' = [fn EXCEPT !.pc = "done", !.out = subSlices(fn.n, fn.numSlices)]
    /\ FnFrame

\* compilePatterns of hypermatcher.go runs with fn.numSlices partitions
FnCompilePatternsPar ==
    /\ fn.op = "compilePatternsPar" /\ fn.pc = "call"
    /\ fn' = [fn EXCEPT !.pc = "done", !.out = compilePatternsPar(fn.pats, fn.numSlices)]
    /\ FnFrame

\* compilePatterns of hyperscanner.go runs
FnCompilePatterns ==
    /\ fn.op = "compilePatterns" /\ fn.pc = "call"
    /\ fn' = [fn EXCEPT !.pc = "done", !.out = compilePatternsDb(fn.pats, fn.built)]
    /\ FnFrame

\* matchedIdxToPatterns(matched, patterns) runs on the set of matched ids: it
\* returns its result, or panics on a write outside the result or a read
\* outside the pattern list
FnMatchedIdxToPatterns ==
    /\ fn.op = "matchedIdxToPatterns" /\ fn.pc = "call"
    /\ IF ~IdxInResult(fn.matchedSet, fn.cps)
       THEN fn' = [fn EXCEPT !.pc = "panic"]
       ELSE fn' = [fn EXCEPT !.pc = "done",
                             !.out = matchedIdxToPatterns(fn.matchedSet, fn.cps)]
    /\ FnFrame

FnNext ==
    \/ FnMatchedIdxToPatterns
    \/ FnMatchedIdxToStrings
    \/ FnSubSlices
    \/ FnCompilePatternsPar
    \/ FnCompilePatterns

FnSpec == FnInit /\ [][FnNext]_vars

\* ------------------------------------------------------------------ specification
Next ==
    \/ Start
    \/ Stop
    \/ \E w \in Workers : WorkerPark(w)
    \/ \E w \in Workers : WorkerStop(w)
    \/ \E w \in Workers : WorkerScan(w)
    \/ \E u \in Clients, pats \in PatternLists, built \in BOOLEAN :
          UpdateCall(u, pats, built)
    \/ \E u \in Clients : UpdateInstall(u)
    \/ \E u \in Clients : UpdateEval(u)
    \/ \E u \in Clients, allocated \in BOOLEAN : UpdateSend(u, allocated)
    \/ \E m \in Clients, corpus \in Corpora : MatchCall(m, corpus)
    \/ \E m \in Clients, w \in Workers : MatchDispatch(m, w)
    \/ \E m \in Clients : MatchBusy(m)
    \/ \E m \in Clients : MatchMap(m)
    \/ \E c \in Clients, pats \in PatternLists, built \in BOOLEAN, allocated \in BOOLEAN :
          SimpleUpdateCall(c, pats, built, allocated)
    \/ \E c \in Clients : SimpleUpdateInstall(c)
    \/ \E c \in Clients : SimpleCloseCall(c)
    \/ \E c \in Clients, closed \in BOOLEAN : SimpleClose(c, closed)
    \/ \E c \in Clients, corpus \in Corpora : SimpleMatchCall(c, corpus)
    \/ \E c \in Clients : SimpleMatch(c)

Spec == Init /\ [][Next]_vars

\* ------------------------------------------------------------------ properties
Live(w) == wpc[w] \notin {"none", "stop", "exited"}
CurrentWorkers == { w \in Workers : w[1] = gen }
Accepted(m) == mat[m].pc \in {"wait", "map"}
ButLast == << started, loaded, db, patterns, stopClosed, gen, wpc, wdb, wscratch,
                werr, wreq, dbPats, released, scratch, sfreed, upd, mat, cls, fault,
                hist >>

C2_NoScanOfReleasedDb ==
    \A w \in Workers :
        (wpc[w] = "scan" /\ werr[w] = Nil) => released[wdb[w]] = 0

\* C3: while an Update is still broadcasting its database, the database it
\* replaced has not been released.
C3_ReleaseAfterBroadcast ==
    \A u \in Clients :
        (upd[u].pc \in {"eval", "send"} /\ upd[u].prev # NoDb) =>
            released[upd[u].prev] = 0

\* C4: a Match that leaves its dispatch returns ErrBusy exactly when no worker
\* is parked on the request channel at that moment; then no worker is handed
\* the request, and otherwise one of the parked workers holds it. A worker
\* never holds the request of a caller that is not waiting for the reply.
C4_BusyIffNoWorkerWaiting ==
    [][ /\ \A m \in Clients :
            (mat[m].pc = "dispatch" /\ mat'[m].pc # "dispatch") =>
                LET parked == { w \in Workers : wpc[w] = "parked" } IN
                /\ (parked = {}) <=> (last' = Ret("Match", ErrBusy, << >>)
                                      /\ mat'[m].pc = "idle")
                /\ (parked = {}) => UNCHANGED wvars
                /\ (parked # {}) => \E w \in parked :
                        /\ wreq'[w] = m /\ wpc'[w] = "scan"
                        /\ mat'[m].pc = "wait"
                        /\ last' = last
        /\ \A w \in Workers : wpc'[w] = "scan" => mat'[wreq'[w]].pc = "wait"
      ]_vars

\* a Match issued after Update returned, while every worker is still in its
\* refresh, was answered ErrBusy
C4_Witness ==
    /\ last = Ret("Match", ErrBusy, << >>)
    /\ started /\ loaded /\ hist.lastRet = db
    /\ \A w \in CurrentWorkers : wpc[w] = "select" /\ wdb[w] = db

\* C5: the caller of an accepted request is never left without its reply or
\* its return: the program does not panic while a request that a worker has
\* accepted is in flight, whatever Update and Stop do meanwhile.
C5_AcceptedRequestReturns ==
    \A m \in Clients : Accepted(m) => fault = "none"

\* C6: an Update is never sending its refresh to a worker that has returned
\* from its loop (such a send blocks forever).
C6_UpdateNeverBlocksOnStoppedWorker ==
    \A u \in Clients :
        upd[u].pc = "send" => wpc[upd[u].tgt] # "exited"

\* C7: Stop never faults, and while the pool is Running every worker of the
\* last Start is alive.
C7_Restartable ==
    /\ fault # "close of closed channel"
    /\ (engine = "pooled" /\ started) => \A w \in CurrentWorkers : Live(w)

\* C8: Start on a Running pool returns ErrStarted and Stop on a NotRunning
\* pool returns ErrNotStarted, and neither changes anything else.
C8_LifecycleMisuse ==
    [][ (engine = "pooled" /\ last' # last) =>
          /\ (last'.op = "Start" /\ started) =>
                 last'.err = ErrStarted /\ UNCHANGED ButLast
          /\ (last'.op = "Stop" /\ ~started) =>
                 last'.err = ErrNotStarted /\ UNCHANGED ButLast
      ]_vars

\* Start was refused on a running, loaded pool whose workers are parked
C8_Witness ==
    /\ last = Ret("Start", ErrStarted, << >>)
    /\ started /\ loaded
    /\ \E w \in CurrentWorkers : wpc[w] = "parked"

\* C9: in both engines an Update that was handed an empty list returns
\* ErrNoPatterns and changes nothing else, and no database is ever built
\* from an empty list.
C9_EmptyUpdate ==
    [][ /\ (last' # last /\ last'.op = "Update" /\ last'.empty) =>
               last'.err = ErrNoPatterns /\ UNCHANGED ButLast
        /\ \A d \in DbIds : d <= hist'.nDb => dbPats'[d] # << >>
        /\ \A u \in Clients : upd'[u].pc # "idle" => dbPats'[upd'[u].newdb] # << >>
      ]_vars

\* Update([]) was refused on a running, loaded pool
C9_Witness ==
    /\ last = RetOf("Update", ErrNoPatterns, << >>, TRUE)
    /\ engine = "pooled" /\ started /\ loaded

\* C10: on a pool that is not Running no Update gets past its check: nothing
\* is compiled and no client enters the install or the broadcast, and a
\* call with a non-empty list returns ErrNotStarted with everything else
\* unchanged.
C10_UpdateNotStarted ==
    [][ (engine = "pooled" /\ ~started) =>
          /\ \A u \in Clients : upd[u].pc = "idle" => upd'[u].pc = "idle"
          /\ dbPats' = dbPats /\ hist'.nDb = hist.nDb
          /\ (last' # last /\ last'.op = "Update" /\ ~last'.empty /\ upd' = upd) =>
                 last'.err = ErrNotStarted /\ UNCHANGED ButLast
      ]_vars

\* Update with a pattern list was refused on a pool that had been stopped
C10_Witness ==
    /\ last = RetOf("Update", ErrNotStarted, << >>, FALSE)
    /\ engine = "pooled" /\ ~started /\ stopClosed

\* a step in which a call of Match returns at once, from its checks
MatchRefused == last' # last /\ last'.op = "Match" /\ mat' = mat

C12_MatchNotStarted ==
    [][ (engine = "pooled" /\ ~started /\ db # NoDb /\ MatchRefused) =>
            last'.err = ErrNotStarted
      ]_vars

\* a step in which Update returns the error of a failed parse or build
UpdateFailed ==
    /\ last' # last /\ last'.op = "Update"
    /\ last'.err \notin { Nil, ErrNoPatterns, ErrNotStarted }

\* C13: an Update of the pool that fails in parsing or in the database build
\* changes nothing but its result: db, patterns, loaded, the releases and
\* every worker's database, scratch and error stay as they were.
C13_FailedUpdateFrame ==
    [][ (engine = "pooled" /\ UpdateFailed) => UNCHANGED ButLast ]_vars

\* an Update with an unknown flag failed on a running pool whose database is
\* live and held by a parked worker
C13_Witness ==
    /\ last = RetOf("Update", UpdErr(ParseErr("/p/z", ErrParse)), << >>, FALSE)
    /\ engine = "pooled" /\ started /\ loaded /\ released[db] = 0
    /\ \E w \in CurrentWorkers : wpc[w] = "parked" /\ wdb[w] = db /\ werr[w] = Nil

\* C14: once overlapping Updates of a running pool have all returned, every
\* worker holds the database installed in the engine, the pattern list is
\* that database's, and the database has not been released.
C14_OverlappingUpdatesConverge ==
    (engine = "pooled" /\ started /\ ~stopClosed /\ hist.overlap /\ UpdateBusy = {}) =>
        /\ patterns = dbPats[db]
        /\ released[db] = 0
        /\ \A w \in CurrentWorkers : wdb[w] = db

\* C15: the ids a Match has received from a worker are about to be mapped
\* through the pattern list of the database that was scanned: every id is
\* an index of pe.patterns, and pe.patterns is that database's list.
C15_IdsMappedThroughScannedList ==
    \A m \in Clients :
        (engine = "pooled" /\ mat[m].pc = "map") =>
            /\ IdxInRange(mat[m].matched, patterns)
            /\ patterns = dbPats[mat[m].scanned]

\* the databases that an Update has installed in the engine so far
Installed ==
    { d \in DbIds : d <= hist.nDb /\ \A u \in Clients : ~(upd[u].pc = "install" /\ upd[u].newdb = d) }

\* C16: no database is released twice; a database that a later Update has
\* superseded has been released; and when the pool is NotRunning with no
\* Update under way, the database left installed has been released.
C16_ReleasedExactlyOnce ==
    engine = "pooled" =>
        /\ \A d \in DbIds : released[d] <= 1
        /\ \A d \in Installed : d # db => released[d] = 1
        /\ (~started /\ UpdateBusy = {} /\ db # NoDb) => released[db] = 1

\* the number of entries of seq that are e
Count(seq, e) == Cardinality({ k \in DOMAIN seq : seq[k] = e })

\* C17: for a list of ids within the range of the pattern list, repetitions
\* included, matchedIdxToStrings does not panic and returns one entry per
\* distinct id, the expression of the pattern with that id: each expression
\* appears as often as distinct matched ids carry it, and nothing else
\* appears (nothing at all when nothing matched).
C17_OneEntryPerDistinctId ==
    fn.op = "matchedIdxToStrings" =>
        LET ids == SeqRange(fn.matched) IN
        /\ (fn.pc = "panic") => ~IdxInRange(fn.matched, fn.cps)
        /\ (fn.pc = "done") =>
              /\ Len(fn.out) = Cardinality(ids)
              /\ \A e \in {"p", "q"} \cup SeqRange(fn.out) :
                    Count(fn.out, e) =
                        Cardinality({ id \in ids : fn.cps[id + 1].Expression = e })

\* ids 1, 0, 1 against a list of two patterns gave two entries
C17_Witness ==
    /\ fn.op = "matchedIdxToStrings" /\ fn.pc = "done"
    /\ fn.matched = << 1, 0, 1 >> /\ Len(fn.cps) = 2
    /\ Len(fn.out) = 2

\* the ids of S in ascending order
AscendingIds(S) == CHOOSE o \in Orders(S) : \A a, b \in DOMAIN o : a < b => o[a] < o[b]

\* C18: the expressions are returned in ascending order of pattern id, the
\* order of the patterns in the Update input.
C18_ResultInPatternOrder ==
    (fn.op = "matchedIdxToStrings" /\ fn.pc = "done") =>
        LET o == AscendingIds(SeqRange(fn.matched)) IN
        fn.out = [k \in DOMAIN o |-> fn.cps[o[k] + 1].Expression]

\* the expressions of the patterns of cps that match the corpus
ExpectedSet(cps, corpus) ==
    { cps[id + 1].Expression : id \in SeqRange(Scan(cps, corpus)) }

\* C19: on a pool that has not been stopped, with Updates that do not
\* overlap, a Match that began after an Update returned and met no later
\* Update returns the expressions of that Update's patterns that match the
\* corpus, a function of the pattern list and the corpus alone: Update(P)
\* once or twice gives the same answer. And when the second Update returns
\* with no allocation failed, every worker holds its database, a scratch
\* and no error.
C19_UpdateIdempotent ==
    [][ (engine = "pooled" /\ ~stopClosed /\ ~hist.overlap) =>
          /\ \A m \in Clients :
                (mat[m].pc = "map" /\ mat'[m].pc = "idle"
                   /\ mat[m].quiet /\ mat[m].since # NoDb) =>
                    /\ fault' = "none"
                    /\ last'.op = "Match" /\ last'.err = Nil
                    /\ SeqRange(last'.out) =
                           ExpectedSet(dbPats[mat[m].since], mat[m].corpus)
          /\ (hist'.lastRet = 2 /\ hist.lastRet = 1 /\ hist'.allocFails = 0
                /\ ~hist'.overlap) =>
                \A w \in CurrentWorkers :
                    wdb'[w] = 2 /\ werr'[w] = Nil /\ wscratch'[w] = "ok"
      ]_vars

\* after Update(P); Update(P) a Match returned the expression that matches
C19_Witness ==
    /\ last = Ret("Match", Nil, << "q" >>)
    /\ engine = "pooled" /\ ~stopClosed /\ ~hist.overlap /\ UpdateBusy = {}
    /\ hist.lastRet = 2 /\ db = 2 /\ dbPats[1] = dbPats[2]
    /\ \A w \in CurrentWorkers : wdb[w] = 2 /\ werr[w] = Nil

\* C20: Stop on a Running pool returns nil at once: it does not panic, it
\* waits for no worker (a worker in its scan stays in its scan), and on
\* return started and loaded are false and the database that was loaded has
\* been released.
C20_StopReturnsNil ==
    [][ (engine = "pooled" /\ started
           /\ (started' # started \/ fault' = "close of closed channel")) =>
          /\ fault' = "none"
          /\ last' = Ret("Stop", Nil, << >>)
          /\ ~started' /\ ~loaded'
          /\ loaded => released'[db] = released[db] + 1
          /\ \A w \in Workers : wpc[w] = "scan" => wpc'[w] = "scan"
      ]_vars

\* the select of worker w takes a refresh in this step
Refreshed(w) ==
    \E u \in Clients : upd[u].pc = "send" /\ upd[u].tgt = w /\ upd'[u].pc # "send"

\* C21: a worker starts with ErrWorkerUninitialized and no workspace; while its
\* error is set it answers a scan with that error, touching neither its
\* database nor its workspace, and goes on running; the error changes only
\* when the worker takes a refresh, which clears it when the allocation
\* succeeds and sets the allocation error when it fails.
C21_StickyWorkerError ==
    [][ \A w \in Workers :
          /\ (wpc[w] = "none" /\ wpc'[w] # "none")
                => werr'[w] = ErrWorkerUninitialized /\ wscratch'[w] = "nil"
          /\ (wpc[w] = "scan" /\ wpc'[w] # "scan" /\ werr[w] # Nil)
                => /\ last' = Ret("Match", werr[w], << >>)
                   /\ wpc'[w] = "select" /\ fault' = "none"
                   /\ wscratch'[w] = wscratch[w] /\ wdb'[w] = wdb[w]
                   /\ werr'[w] = werr[w]
          /\ (werr'[w] # werr[w] /\ wpc'[w] # "exited") => Refreshed(w)
          /\ Refreshed(w)
                => /\ wpc'[w] = "select"
                   /\ werr'[w] = IF hist'.allocFails = hist.allocFails
                                 THEN Nil ELSE ErrScratch ]_vars

\* a Match was answered with the error a failed refresh left in a worker that
\* is still running
C21_Witness ==
    /\ last = Ret("Match", ErrScratch, << >>)
    /\ \E w \in Workers : wpc[w] \in {"select", "parked"} /\ werr[w] = ErrScratch

\* C22: Simple.Close on an engine that is not loaded returns ErrNotLoaded and
\* changes nothing; on a loaded engine it releases the database and the
\* scratch, once each, and leaves the engine unloaded; while the engine is
\* unloaded no Match reaches the scan and a Match call returns ErrNotLoaded;
\* only an Update that returns nil loads the engine again, with a database
\* and a scratch that are not released.
C22_CloseThenNotLoaded ==
    [][ engine = "simple" =>
          /\ (last'.op = "Close" /\ last' # last /\ cls' = cls)
                => ~loaded /\ last'.err = ErrNotLoaded /\ UNCHANGED ButLast
          /\ \A c \in Clients :
                (cls[c] = "locked" /\ cls'[c] = "idle" /\ loaded)
                => /\ last' = Ret("Close", Nil, << >>)
                   /\ released'[db] = 1
                   /\ scratch # NoDb /\ sfreed'[scratch] = 1 /\ scratch' = NoDb
                   /\ ~loaded' /\ fault' = "none"
          /\ ~loaded
                => /\ \A c \in Clients : mat'[c].pc = "scan" => mat[c].pc = "scan"
                   /\ (last'.op = "Match" /\ last' # last /\ mat' = mat)
                        => last'.err = ErrNotLoaded /\ UNCHANGED ButLast
          /\ (~loaded /\ loaded')
                => /\ last' = Ret("Update", Nil, << >>)
                   /\ scratch' = db' /\ released'[db'] = 0 /\ sfreed'[db'] = 0 ]_vars

\* Close released the database and the scratch of a loaded engine, and the
\* Match that followed was refused
C22_Witness ==
    /\ engine = "simple" /\ ~loaded
    /\ db # NoDb /\ released[db] = 1 /\ sfreed[db] = 1 /\ scratch = NoDb
    /\ last = Ret("Match", ErrNotLoaded, << >>)

\* what Match of a started pooled engine returns for a corpus once an Update
\* of the compiled list cps has returned and no other call is running
PooledMatchResults(cps, corpus) == matchedIdxToStrings(Scan(cps, corpus), cps)

\* the errors Update of a started pooled engine can return
PooledUpdateErrors ==
    { ErrNoPatterns, UpdErr(UpdErr(ErrBuild)) }
    \cup { UpdErr(compilePatterns(pats).err) : pats \in PatternLists \ { << >> } }

\* C23: whatever a call of the Simple engine returns is something a started
\* pooled engine can return: a Match result is a result of the pooled Match
\* for the installed patterns, an Update error is an error of the pooled
\* Update, and the Simple engine does not panic where the pooled one returns.
C23_SimpleWithinPooled ==
    engine = "simple" =>
      /\ fault # "index out of range"
      /\ (last.op = "Match" /\ last.err = Nil)
            => \E corpus \in Corpora : last.out \in PooledMatchResults(patterns, corpus)
      /\ (last.op = "Update" /\ last.err # Nil) => last.err \in PooledUpdateErrors

\* C24: every send of Update's broadcast goes to the worker at the next index
\* of the pool, completes while that worker is between two requests, and
\* leaves the worker with the database this Update installed; when Update
\* returns nil every worker of the pool holds that database.
C24_UpdateDeliversItsDatabase ==
    [][ \A u \in Clients :
          /\ (upd[u].pc = "send" /\ upd'[u].pc # "send")
                => /\ upd[u].tgt = << gen, upd[u].i >>
                   /\ wpc[upd[u].tgt] \in {"select", "parked"}
                   /\ wdb'[upd[u].tgt] = upd[u].newdb
          /\ (upd[u].pc = "send" /\ upd'[u].pc = "idle")
                => /\ upd[u].i = NumWorkers
                   /\ last' = Ret("Update", Nil, << >>)
                   /\ \A w \in CurrentWorkers : wdb'[w] = upd[u].newdb ]_vars

\* C25: whenever the pooled engine is loaded it is started and the database
\* it holds has not been released.
C25_LoadedImpliesStarted ==
    (engine = "pooled" /\ loaded) => started /\ db # NoDb /\ released[db] = 0

\* the workers that hold a scan request
Scanning == { w \in Workers : wpc[w] = "scan" }

\* C26: a worker handles one signal at a time: at most NumWorkers scans are
\* in progress, each for a different caller that is waiting for it, a scan
\* that runs uses a workspace that is allocated and not freed, and while a
\* worker holds a scan request nobody refreshes it or writes its database,
\* workspace or error.
C26_OneSignalAtATime ==
    [][ /\ Cardinality(Scanning) <= NumWorkers
        /\ \A w \in Scanning :
              /\ wreq[w] \in Clients /\ mat[wreq[w]].pc = "wait"
              /\ \A v \in Scanning : v # w => wreq[v] # wreq[w]
              /\ werr[w] = Nil => wscratch[w] = "ok"
              /\ ~Refreshed(w)
              /\ wdb'[w] = wdb[w] /\ wscratch'[w] = wscratch[w] /\ werr'[w] = werr[w]
              /\ wpc'[w] \in {"scan", "select"} ]_vars

\* a worker scans for a caller while an Update is waiting to refresh it
C26_Witness ==
    \E u \in Clients : upd[u].pc = "send" /\ upd[u].tgt \in Scanning

\* C27: a worker leaves its loop by releasing the workspace it holds; once it
\* has left it takes no refresh and releases nothing again; and once Stop has
\* returned no worker takes a scan request.
C27_StoppedWorkersRelease ==
    [][ \A w \in Workers :
          /\ (wpc[w] # "exited" /\ wpc'[w] = "exited")
                => wscratch[w] = "ok" /\ wscratch'[w] = "freed"
          /\ wpc[w] = "exited"
                => wpc'[w] = "exited" /\ ~Refreshed(w) /\ wscratch'[w] = wscratch[w]
          /\ (stopClosed /\ wpc'[w] = "scan") => wpc[w] = "scan" ]_vars

\* C28: when the parallel compilePatterns succeeds, the list it returns has
\* the length of its input and holds at every position i the pattern parsed
\* from input i with id i: no position is left nil, no id is missing or
\* given twice, whatever the number of partitions.
C28_CompiledInInputOrder ==
    (fn.op = "compilePatternsPar" /\ fn.pc = "done" /\ fn.out.err = Nil) =>
        /\ Len(fn.out.patterns) = Len(fn.pats)
        /\ \A k \in 1..Len(fn.pats) :
              fn.out.patterns[k] =
                  [Id |-> k - 1, Expression |-> ParsePattern(fn.pats[k]).Expression]

\* three patterns compiled in two partitions and a remainder
C28_Witness ==
    /\ fn.op = "compilePatternsPar" /\ fn.pc = "done" /\ fn.out.err = Nil
    /\ fn.pats = << "/q/", "/p/", "/q/" >> /\ fn.numSlices = 2

\* the indices of the half-open range r
RangeOf(r) == r[1] .. (r[2] - 1)

\* C29: the ranges subSlices returns are within [0, n], pairwise disjoint,
\* and together they are exactly the indices 0..n-1.
C29_SubSlicesPartition ==
    (fn.op = "subSlices" /\ fn.pc = "done") =>
        /\ \A i \in DOMAIN fn.out :
              0 <= fn.out[i][1] /\ fn.out[i][1] <= fn.out[i][2] /\ fn.out[i][2] <= fn.n
        /\ \A i, j \in DOMAIN fn.out :
              i # j => RangeOf(fn.out[i]) \cap RangeOf(fn.out[j]) = {}
        /\ UNION { RangeOf(fn.out[i]) : i \in DOMAIN fn.out } = 0 .. (fn.n - 1)

\* fewer entries than slices: three empty ranges and the remainder
C29_Witness ==
    /\ fn.op = "subSlices" /\ fn.pc = "done"
    /\ fn.n = 2 /\ fn.numSlices = 3
    /\ fn.out = << << 0, 0 >>, << 0, 0 >>, << 0, 0 >>, << 0, 2 >> >>

\* the positions of the patterns of pats that do not parse, and the first one
Malformed(pats) == { k \in DOMAIN pats : ParsePattern(pats[k]).err # Nil }
FirstMalformed(pats) ==
    CHOOSE k \in Malformed(pats) : \A j \in Malformed(pats) : k <= j

\* the error compilePatterns gives for the first malformed pattern: the
\* library's error as it is (hypermatcher.go), or wrapped with the pattern
\* (hyperscanner.go)
FirstParseError(op, pats) ==
    LET k == FirstMalformed(pats) IN
    IF op = "compilePatternsPar" THEN ParsePattern(pats[k]).err
    ELSE ParseErr(pats[k], ParsePattern(pats[k]).err)

\* C30 as stated: compilePatterns fails if and only if some input pattern is
\* malformed, and then with the parse error of the first malformed pattern.
C30_FailsIffMalformed ==
    (fn.op \in {"compilePatternsPar", "compilePatterns"} /\ fn.pc = "done") =>
        /\ (fn.out.err # Nil) <=> (Malformed(fn.pats) # {})
        /\ Malformed(fn.pats) # {} => fn.out.err = FirstParseError(fn.op, fn.pats)

\* C30: compilePatterns fails with the parse error of the first malformed
\* pattern whenever some input pattern is malformed, whatever the partitions
\* and the other malformed patterns; the compilePatterns that parses in
\* parallel fails in no other case, the one that also builds the database
\* fails in one more case, with the build error, when every pattern parses
\* and the build fails.
C30_FailsIffMalformedOrBuildFails ==
    (fn.op \in {"compilePatternsPar", "compilePatterns"} /\ fn.pc = "done") =>
        /\ Malformed(fn.pats) # {} => fn.out.err = FirstParseError(fn.op, fn.pats)
        /\ (Malformed(fn.pats) = {} /\ fn.op = "compilePatternsPar") => fn.out.err = Nil
        /\ (Malformed(fn.pats) = {} /\ fn.op = "compilePatterns")
              => fn.out.err = IF fn.built THEN Nil ELSE UpdErr(ErrBuild)

\* two malformed patterns in two partitions: the error is that of the first
C30_Witness ==
    /\ fn.op = "compilePatternsPar" /\ fn.pc = "done" /\ fn.numSlices = 3
    /\ fn.pats = << "/q/y", "/p/", "/p/z" >>
    /\ fn.out.err = ErrFlag("y")

\* C31: for a set of matched ids within the range of the pattern list,
\* matchedIdxToPatterns writes at no index outside its result and returns as
\* many entries as ids matched, exactly the expressions of those ids.
C31_AggregationWithinResult ==
    (fn.op = "matchedIdxToPatterns" /\ \A id \in fn.matchedSet : id < Len(fn.cps)) =>
        /\ fn.pc # "panic"
        /\ fn.pc = "done" =>
              /\ Len(fn.out) = Cardinality(fn.matchedSet)
              /\ \A e \in {"p", "q"} \cup SeqRange(fn.out) :
                    Count(fn.out, e) =
                        Cardinality({ id \in fn.matchedSet : fn.cps[id + 1].Expression = e })

\* an Update has installed its database and has not yet refreshed worker w
Broadcasting(w) ==
    \E u \in Clients : upd[u].pc \in {"eval", "send"} /\ upd[u].i <= w[2]

\* C32: a worker that still holds ErrWorkerUninitialized takes a scan request
\* only while a database is loaded and the broadcast of an Update has not
\* reached it; Match returns ErrWorkerUninitialized only as the reply of such
\* a worker, and never to a call that began after an Update had returned nil.
C32_UninitializedOnlyDuringBroadcast ==
    [][ /\ \A w \in Workers :
              /\ (wpc[w] = "parked" /\ wpc'[w] = "scan"
                     /\ werr[w] = ErrWorkerUninitialized)
                    => loaded /\ ~stopClosed /\ Broadcasting(w)
              /\ (wpc[w] = "scan" /\ wpc'[w] = "select"
                     /\ werr[w] = ErrWorkerUninitialized)
                    => /\ last' = Ret("Match", ErrWorkerUninitialized, << >>)
                       /\ mat[wreq[w]].since = NoDb
        /\ (last' # last /\ last'.op = "Match" /\ last'.err = ErrWorkerUninitialized)
              => \E w \in Workers : /\ wpc[w] = "scan" /\ wpc'[w] = "select"
                                     /\ werr[w] = ErrWorkerUninitialized ]_vars

\* a Match was answered ErrWorkerUninitialized while an Update is still
\* sending its database to the workers
C32_Witness ==
    /\ last = Ret("Match", ErrWorkerUninitialized, << >>)
    /\ \E w \in Workers : wpc[w] \in {"select", "parked"} /\ Broadcasting(w)
                            /\ werr[w] = ErrWorkerUninitialized

\* C33: a worker that never received a database has no workspace, and Free
\* is never called for a worker that holds no workspace.
C33_ReleaseOnlyAllocated ==
    \A w \in Workers :
        /\ (wdb[w] = NoDb /\ wpc[w] \in {"none", "select", "parked", "stop"})
              => wscratch[w] = "nil"
        /\ wscratch[w] # "nil freed"

\* C34: in the Simple engine the scan of a Match runs on a database that is
\* not released, with a scratch that is allocated and not freed, and no
\* database is released twice.
C34_SimpleScansLiveDatabase ==
    [][ engine = "simple" =>
          /\ \A c \in Clients :
                (mat[c].pc = "scan" /\ (mat'[c].pc # "scan" \/ fault' # fault))
                => /\ db # NoDb /\ released[db] = 0
                   /\ scratch # NoDb /\ sfreed[scratch] = 0
          /\ \A d \in DbIds : released'[d] <= 1 ]_vars

====
